---- MODULE Spec2Model ----
(***************************************************************************)
(* Model of the image metadata extraction service (src/main.py).           *)
(*                                                                         *)
(* The service has one handler, extract_metadata, for POST                 *)
(* /extract-metadata.  A request carries a filename and the uploaded       *)
(* bytes.  The handler runs in two steps separated by its only suspension  *)
(* point, `await file.read()`:                                             *)
(*   extract_metadata_begin   lines 33-39 (extension check, start of read) *)
(*   extract_metadata_resume  lines 39-95 (decode, build, serialise)       *)
(*                                                                         *)
(* Python values are tagged records:                                       *)
(*   [t |-> "none"]                       None                             *)
(*   [t |-> "int",   n |-> i]             the int i                        *)
(*   [t |-> "float", h |-> i]             the float i/100                  *)
(*   [t |-> "rational", n |-> i]          a number that is neither int nor *)
(*                                        float (Pillow's IFDRational)     *)
(*   [t |-> "str",   s |-> "..."]         a literal string                 *)
(*   [t |-> "str",   chars |-> <<..>>]    a string held as its characters  *)
(*   [t |-> "str",   fmt |-> "...", arg |-> i]   a formatted string        *)
(*   [t |-> "bytes", n |-> i, repr |-> j] i raw bytes whose str() has j    *)
(*                                        characters                       *)
(*   [t |-> "dict",  d |-> f]             a dict, f a function on its keys *)
(***************************************************************************)
EXTENDS Integers, Sequences, FiniteSets, TLC

VARIABLES pc, file, contents, response, served, submitted, log

vars == <<pc, file, contents, response, served, submitted, log>>

------------------------------------------------------------------------------
(* Bounds of the model. *)

\* Concurrent handler invocations (connections being served at once).
NumWorkers == 2
\* Requests submitted in one behaviour of the service.
MaxRequests == 3
\* Distinct addresses the allocator may give the BytesIO buffer of line 42.
NumAddrs == 2
\* Pixel dimensions range over 0..MaxPx (and 192).
MaxPx == 3
\* Integer DPI components range over -1..MaxDpi (and 72, 96, 300).
MaxDpi == 3

Workers == 1..NumWorkers
Addrs == 1..NumAddrs

------------------------------------------------------------------------------
(* Python values. *)

None == [t |-> "none"]
PyInt(i) == [t |-> "int", n |-> i]
PyFloat(hundredths) == [t |-> "float", h |-> hundredths]
PyRational(i) == [t |-> "rational", n |-> i]
PyStr(s) == [t |-> "str", s |-> s]
PyChars(cs) == [t |-> "str", chars |-> cs]
PyFormat(f, a) == [t |-> "str", fmt |-> f, arg |-> a]
PyBytes(i, j) == [t |-> "bytes", n |-> i, repr |-> j]
PyDict(f) == [t |-> "dict", d |-> f]

\* bool(v): Python truth value testing.
Truthy(v) ==
  CASE v.t = "none" -> FALSE
    [] v.t = "int" -> v.n # 0
    [] v.t = "rational" -> v.n # 0
    [] v.t = "float" -> v.h # 0
    [] v.t = "bytes" -> v.n # 0
    [] v.t = "str" -> IF "chars" \in DOMAIN v THEN v.chars # <<>>
                      ELSE IF "s" \in DOMAIN v THEN v.s # ""
                      ELSE TRUE
    [] OTHER -> TRUE

\* isinstance(v, (int, float))
IsIntOrFloat(v) == v.t \in {"int", "float"}

------------------------------------------------------------------------------
(* str.lower() and str.endswith() on strings held as character sequences. *)

UpperCase == <<"A", "B", "C", "D", "E", "F", "G", "H", "I", "J", "K", "L", "M",
               "N", "O", "P", "Q", "R", "S", "T", "U", "V", "W", "X", "Y", "Z">>
LowerCase == <<"a", "b", "c", "d", "e", "f", "g", "h", "i", "j", "k", "l", "m",
               "n", "o", "p", "q", "r", "s", "t", "u", "v", "w", "x", "y", "z">>

LowerChar(c) ==
  IF \E i \in 1..Len(UpperCase) : UpperCase[i] = c
  THEN LowerCase[CHOOSE i \in 1..Len(UpperCase) : UpperCase[i] = c]
  ELSE c

lower(s) == [i \in 1..Len(s) |-> LowerChar(s[i])]

endswith(s, suffix) ==
  /\ Len(s) >= Len(suffix)
  /\ SubSeq(s, Len(s) - Len(suffix) + 1, Len(s)) = suffix

\* The tuple of suffixes on line 35.
IMAGE_SUFFIXES ==
  { <<".", "p", "n", "g">>, <<".", "j", "p", "g">>, <<".", "j", "p", "e", "g">>,
    <<".", "g", "i", "f">>, <<".", "b", "m", "p">>, <<".", "t", "i", "f", "f">> }

\* str.endswith(tuple): true when some member is a suffix.
endswith_any(s, suffixes) == \E suffix \in suffixes : endswith(s, suffix)

\* A variant that looks for the suffix anywhere in the name ('.png' in name).
FilenameAccepted_Contains(filename) ==
  \E suffix \in IMAGE_SUFFIXES :
    \E i \in 1..Len(filename) :
      /\ i + Len(suffix) - 1 <= Len(filename)
      /\ SubSeq(lower(filename), i, i + Len(suffix) - 1) = suffix

\* The condition of line 35 (before the `not`).
FilenameAccepted(filename) == endswith_any(lower(filename), IMAGE_SUFFIXES)

------------------------------------------------------------------------------
(* Float arithmetic of lines 60 and 65-68.  A quotient is kept exactly, as *)
(* the pair <<numerator, denominator>>; round(q, 2) is Python's round:     *)
(* to the nearest hundredth, a tie going to the even hundredth.            *)

\* The nearest integer to a / b (b # 0), ties to even.
RoundHalfEven(a, b) ==
  LET n == IF b < 0 THEN -a ELSE a
      d == IF b < 0 THEN -b ELSE b
      q == n \div d
      r == n - q * d
  IN  IF 2 * r < d THEN q
      ELSE IF 2 * r > d THEN q + 1
      ELSE IF q % 2 = 0 THEN q ELSE q + 1

\* x / y for an int x and an int or float y.
TrueDiv(x, y) == IF y.t = "float" THEN <<x * 100, y.h>> ELSE <<x, y.n>>

\* q * 25.4
TimesMmPerInch(q) == <<q[1] * 254, q[2] * 10>>

\* round(q, 2)
Round2(q) == PyFloat(RoundHalfEven(q[1] * 100, q[2]))

------------------------------------------------------------------------------
(* Dicts are functions on their keys. *)

EmptyDict == [k \in {} |-> None]

\* d with the items of e set, as successive d[k] = v assignments do.
DictUpdate(d, e) ==
  [k \in DOMAIN d \cup DOMAIN e |-> IF k \in DOMAIN e THEN e[k] ELSE d[k]]

------------------------------------------------------------------------------
(* The decoding collaborator, Image.open(io.BytesIO(contents)) of line 42. *)
(* An upload is [len, img]: the byte length and what the bytes decode to.  *)
(* img is [valid |-> TRUE, size, format, mode, info] for a parseable image *)
(* and [valid |-> FALSE, why] otherwise.  A failure to identify the image  *)
(* raises with a message that is formatted from the repr of the BytesIO    *)
(* object created on line 42, which carries that object's address.         *)

DecodeError(why, addr) ==
  IF why = "unidentified"
  THEN [type |-> "UnidentifiedImageError",
        text |-> "cannot identify image file <_io.BytesIO object at %x>",
        at |-> addr]
  ELSE [type |-> "DecompressionBombError",
        text |-> "Image size exceeds limit, could be decompression bomb DOS attack.",
        at |-> 0]

Image_open(bytes, addr) ==
  IF bytes.img.valid
  THEN [raised |-> FALSE, img |-> bytes.img]
  ELSE [raised |-> TRUE, exc |-> DecodeError(bytes.img.why, addr)]

\* img.info.get("dpi", (None, None)) of line 48
InfoDpi(info) == IF "dpi" \in DOMAIN info THEN info["dpi"] ELSE <<None, None>>

------------------------------------------------------------------------------
(* The body of the handler after the read, lines 45-82. *)

\* A variant that tests `is not None` instead of truthiness.
DpiField_NotNone(v) == IF v.t # "none" THEN v ELSE PyStr("not specified")

\* dpi[i] if dpi[i] else "not specified"  (lines 57, 58)
DpiField(v) == IF Truthy(v) THEN v ELSE PyStr("not specified")

\* A variant that takes a megabyte to be 1000 * 1000 bytes.
FileSizeMb_Decimal(length) == Round2(<<length, 1000 * 1000>>)

\* round(len(contents) / (1024 * 1024), 2)  (line 60)
FileSizeMb(length) == Round2(<<length, 1024 * 1024>>)

\* Lines 51-61.
BaseMetadata(filename, img, length) ==
  LET dpi == InfoDpi(img.info)
  IN  [ filename        |-> PyChars(filename),
        format          |-> PyStr(img.format),
        mode            |-> PyStr(img.mode),
        width_px        |-> PyInt(img.size[1]),
        height_px       |-> PyInt(img.size[2]),
        dpi_x           |-> DpiField(dpi[1]),
        dpi_y           |-> DpiField(dpi[2]),
        file_size_bytes |-> PyInt(length),
        file_size_mb    |-> FileSizeMb(length) ]

\* The condition of line 64.
DpiAvailable(dpi) ==
  /\ Truthy(dpi[1]) /\ Truthy(dpi[2])
  /\ IsIntOrFloat(dpi[1]) /\ IsIntOrFloat(dpi[2])

\* A variant that converts the rounded inches to millimetres.
PhysicalDimensions_MmFromRounded(width, height, dpi) ==
  LET width_inches == Round2(TrueDiv(width, dpi[1]))
      height_inches == Round2(TrueDiv(height, dpi[2]))
  IN  [ width_inches  |-> width_inches,
        height_inches |-> height_inches,
        width_mm      |-> Round2(TimesMmPerInch(<<width_inches.h, 100>>)),
        height_mm     |-> Round2(TimesMmPerInch(<<height_inches.h, 100>>)) ]

\* Lines 65-68.
PhysicalDimensions(width, height, dpi) ==
  [ width_inches  |-> Round2(TrueDiv(width, dpi[1])),
    height_inches |-> Round2(TrueDiv(height, dpi[2])),
    width_mm      |-> Round2(TimesMmPerInch(TrueDiv(width, dpi[1]))),
    height_mm     |-> Round2(TimesMmPerInch(TrueDiv(height, dpi[2]))) ]

\* The list of line 76 and the list of line 79.
PNG_KEYS == {"gamma", "transparency", "icc_profile", "exif", "description", "software"}
PNG_BINARY_KEYS == {"icc_profile", "exif"}

\* len(str(v)) of line 82, v the bytes value of a binary key
StrLen(v) == v.repr

\* A variant that defaults the keys the decoder metadata lacks to None.
PngMetadata_Defaulted(png_info) ==
  [ key \in PNG_KEYS |->
      IF key \notin DOMAIN png_info THEN None
      ELSE IF key \notin PNG_BINARY_KEYS THEN png_info[key]
      ELSE PyFormat("Present (%d bytes)", StrLen(png_info[key])) ]

\* Lines 72-82.
PngMetadata(png_info) ==
  [ key \in PNG_KEYS \cap DOMAIN png_info |->
      IF key \notin PNG_BINARY_KEYS
      THEN png_info[key]
      ELSE PyFormat("Present (%d bytes)", StrLen(png_info[key])) ]

\* Lines 45-82: the metadata dict as it stands at line 84.
Metadata(filename, img, length) ==
  LET dpi == InfoDpi(img.info)
      m1 == BaseMetadata(filename, img, length)
      m2 == IF DpiAvailable(dpi)
            THEN DictUpdate(m1, PhysicalDimensions(img.size[1], img.size[2], dpi))
            ELSE m1
  IN  IF img.format = "PNG"
      THEN DictUpdate(m2, [png_metadata |-> PyDict(PngMetadata(img.info))])
      ELSE m2

------------------------------------------------------------------------------
(* Responses.  JSONResponse renders its content with json.dumps when it is *)
(* constructed (line 86, inside the try): a value json cannot encode       *)
(* raises TypeError there.                                                 *)

JsonLeafSerializable(v) == v.t \in {"none", "int", "float", "str"}

JsonSerializable(v) ==
  IF v.t = "dict"
  THEN \A k \in DOMAIN v.d :
         IF v.d[k].t = "dict"
         THEN \A j \in DOMAIN v.d[k].d : JsonLeafSerializable(v.d[k].d[j])
         ELSE JsonLeafSerializable(v.d[k])
  ELSE JsonLeafSerializable(v)

\* type(v).__name__ of a value json cannot encode
TypeName(v) == IF v.t = "rational" THEN "IFDRational" ELSE v.t

\* The value json.dumps stops at: dpi_x and dpi_y are emitted before
\* png_metadata (lines 57, 58, 73).
FirstUnencodable(metadata) ==
  IF ~JsonLeafSerializable(metadata["dpi_x"]) THEN metadata["dpi_x"]
  ELSE IF ~JsonLeafSerializable(metadata["dpi_y"]) THEN metadata["dpi_y"]
  ELSE LET png == metadata["png_metadata"].d
       IN  png[CHOOSE k \in DOMAIN png : ~JsonLeafSerializable(png[k])]

JsonTypeError(metadata) ==
  [type |-> "TypeError",
   text |-> "Object of type %s is not JSON serializable",
   of |-> TypeName(FirstUnencodable(metadata))]

JSONResponse(status_code, content) == [status_code |-> status_code, body |-> content]

\* A variant that answers a processing failure with status 400.
ErrorResponse_400(e) ==
  JSONResponse(400, [error |-> [t |-> "str", prefix |-> "Failed to process image: ",
                                str_e |-> e]])

\* A variant that puts the message under the key "detail".
ErrorResponse_DetailKey(e) ==
  JSONResponse(500, [detail |-> [t |-> "str", prefix |-> "Failed to process image: ",
                                 str_e |-> e]])

\* Lines 90-95: the handler's own error response.
ErrorResponse(e) ==
  JSONResponse(500, [error |-> [t |-> "str", prefix |-> "Failed to process image: ",
                                str_e |-> e]])

\* Lines 36 and 88-89: the HTTPException is re-raised to the framework,
\* whose handler answers with the status code and {"detail": detail}.
HTTPException(status_code, detail) ==
  [status_code |-> status_code, body |-> [detail |-> PyStr(detail)]]

\* Lines 42-95: the outcome of the handler once the contents are read, and
\* the levels of the log lines it writes (lines 84, 91).
ProcessImage(filename, bytes, addr) ==
  LET opened == Image_open(bytes, addr)
  IN  IF opened.raised
      THEN [response |-> ErrorResponse(opened.exc), lines |-> <<"ERROR">>]
      ELSE LET metadata == Metadata(filename, opened.img, bytes.len)
           IN  IF JsonSerializable(PyDict(metadata))
               THEN [response |-> JSONResponse(200, metadata), lines |-> <<"INFO">>]
               ELSE [response |-> ErrorResponse(JsonTypeError(metadata)),
                     lines |-> <<"INFO", "ERROR">>]

------------------------------------------------------------------------------
(* Inputs: filenames and uploads. *)

ValidImage(size, format, mode, info) ==
  [valid |-> TRUE, size |-> size, format |-> format, mode |-> mode, info |-> info]
InvalidImage(why) == [valid |-> FALSE, why |-> why]
Upload(length, img) == [len |-> length, img |-> img]

Filenames ==
  { <<"a", ".", "p", "n", "g">>, <<"A", ".", "P", "N", "G">>,
    <<"b", ".", "J", "p", "g">>, <<"c", ".", "j", "p", "e", "g">>,
    <<"d", ".", "g", "i", "f">>, <<"e", ".", "b", "m", "p">>,
    <<"f", ".", "T", "I", "F", "F">>, <<".", "p", "n", "g">>,
    <<"g", ".", "t", "i", "f">>, <<"h", ".", "t", "x", "t">>,
    <<"p", "n", "g">>, <<>>,
    <<"i", ".", "p", "n", "g", ".", "t", "x", "t">>,
    <<"j", ".", "p", "n", "g", " ">> }

\* Byte lengths: around the first hundredth of a megabyte, at exact ties of
\* the rounding (odd multiples of 2^17 bytes), and at whole megabytes.
Lengths ==
  { 1, 5242, 5243, 15728, 15729, 131072, 393216, 655360, 1048576, 1572864,
    10485760 }

Dims == (0..MaxPx) \cup {192}

\* The components a decoder reports for "dpi": ints (JFIF density), floats
\* (PNG pHYs, BMP, EXIF resolution), rationals (TIFF resolution tags), and a
\* non-numeric value, which the isinstance test of line 64 provides for.
DpiComponents ==
  { PyInt(i) : i \in (-1..MaxDpi) \cup {72, 96, 300} }
    \cup { PyFloat(7200), PyFloat(0), PyFloat(-7200), PyRational(72), PyStr("72") }

\* Uploads that differ in length only.
LengthUploads ==
  { Upload(n, ValidImage(<<1, 1>>, "JPEG", "RGB", EmptyDict)) : n \in Lengths }

\* Uploads that differ in pixel size and DPI.
DimensionUploads ==
  { Upload(5243, ValidImage(<<w, h>>, "JPEG", "RGB", [dpi |-> <<x, y>>])) :
      w \in Dims, h \in Dims, x \in DpiComponents, y \in DpiComponents }
    \cup { Upload(5243, ValidImage(<<w, h>>, "JPEG", "RGB", EmptyDict)) :
             w \in Dims, h \in Dims }

InfoKeys == PNG_KEYS \cup {"Software", "dpi"}

\* The values a key of the decoder's info may hold, numbered from 1.
\* "transparency" is an int (one transparent palette index) or bytes (a
\* tRNS chunk with an alpha value per palette entry).
InfoOption(key) ==
  CASE key = "gamma" -> <<PyFloat(45)>>
    [] key = "transparency" -> <<PyInt(0), PyBytes(2, 11)>>
    [] key = "icc_profile" -> <<PyBytes(4, 19)>>
    [] key = "exif" -> <<PyBytes(0, 3)>>
    [] key = "description" -> <<PyStr("a scan")>>
    [] key = "software" -> <<PyStr("")>>
    [] key = "Software" -> <<PyStr("GIMP")>>
    [] key = "dpi" -> << <<PyInt(96), PyInt(96)>>, <<PyRational(72), PyRational(72)>> >>

\* Every info mapping: each key absent (0) or holding one of its values.
Infos ==
  { [k \in { j \in InfoKeys : c[j] > 0 } |-> InfoOption(k)[c[k]]] :
      c \in { c \in [InfoKeys -> 0..2] : \A k \in InfoKeys : c[k] <= Len(InfoOption(k)) } }

Formats == {"PNG", "JPEG", "TIFF"}

\* Uploads that differ in format and decoder metadata.
InfoUploads ==
  { Upload(5243, ValidImage(<<192, 192>>, f, "P", info)) : f \in Formats, info \in Infos }

\* Uploads the decoder cannot parse (the empty upload among them).
InvalidUploads ==
  { Upload(0, InvalidImage("unidentified")), Upload(3, InvalidImage("unidentified")),
    Upload(5243, InvalidImage("bomb")) }

Uploads == LengthUploads \cup DimensionUploads \cup InfoUploads \cup InvalidUploads

\* Uploads tried under every filename: the invalid ones, every length, and
\* two valid PNG images, one of them with a binary transparency value.
CoreUploads ==
  InvalidUploads \cup LengthUploads
    \cup { Upload(5243, ValidImage(<<192, 192>>, "PNG", "RGB",
                                   [dpi |-> <<PyInt(96), PyInt(96)>>])),
           Upload(5243, ValidImage(<<1, 2>>, "PNG", "P",
                                   [transparency |-> PyBytes(2, 11)])) }

\* Filenames tried with every upload.
CoreFilenames == { <<"a", ".", "p", "n", "g">>, <<"f", ".", "T", "I", "F", "F">> }

\* The requests of the one-request specification: <<filename, upload>>.
Requests == (Filenames \X CoreUploads) \cup (CoreFilenames \X Uploads)

\* The inputs of the concurrent service.
ServiceFilenames == { <<"a", ".", "p", "n", "g">>, <<"h", ".", "t", "x", "t">> }
ServiceUploads ==
  { Upload(3, InvalidImage("unidentified")),
    Upload(5243, ValidImage(<<192, 192>>, "PNG", "RGB",
                            [dpi |-> <<PyInt(96), PyInt(96)>>])) }

------------------------------------------------------------------------------
(* State and actions. *)

NoFile == [none |-> TRUE]
Unread == [unread |-> TRUE]
NoResponse == [status_code |-> 0]

Init ==
  /\ pc = [r \in Workers |-> "idle"]
  /\ file = [r \in Workers |-> NoFile]
  /\ contents = [r \in Workers |-> Unread]
  /\ response = [r \in Workers |-> NoResponse]
  /\ served = {}
  /\ submitted = 0
  /\ log = [INFO |-> 0, ERROR |-> 0]

\* A client posts an upload; the framework calls the handler (line 31).
Request(r, filename, upload) ==
  /\ pc[r] = "idle"
  /\ submitted < MaxRequests
  /\ submitted' = submitted + 1
  /\ file' = [file EXCEPT ![r] = [filename |-> filename, upload |-> upload]]
  /\ pc' = [pc EXCEPT ![r] = "begin"]
  /\ UNCHANGED <<contents, response, served, log>>

\* Lines 33-39, up to the suspension at `await file.read()`.
extract_metadata_begin(r) ==
  /\ pc[r] = "begin"
  /\ IF ~FilenameAccepted(file[r].filename)
     THEN /\ response' = [response EXCEPT ![r] =
                 HTTPException(400, "File must be an image (PNG, JPG, JPEG, GIF, BMP, TIFF)")]
          /\ pc' = [pc EXCEPT ![r] = "responded"]
     ELSE /\ pc' = [pc EXCEPT ![r] = "reading"]
          /\ UNCHANGED response
  /\ UNCHANGED <<file, contents, served, submitted, log>>

\* Lines 39-95, from the completion of the read to the response.
extract_metadata_resume(r) ==
  /\ pc[r] = "reading"
  /\ \E addr \in Addrs :
       LET out == ProcessImage(file[r].filename, file[r].upload, addr)
       IN  /\ response' = [response EXCEPT ![r] = out.response]
           /\ log' = [level \in DOMAIN log |->
                        log[level] + Cardinality({i \in DOMAIN out.lines : out.lines[i] = level})]
  /\ contents' = [contents EXCEPT ![r] = file[r].upload]
  /\ pc' = [pc EXCEPT ![r] = "responded"]
  /\ UNCHANGED <<file, served, submitted>>

\* The response is sent; the invocation's locals are dropped.
Deliver(r) ==
  /\ pc[r] = "responded"
  /\ served' = served \cup { [filename |-> file[r].filename, upload |-> file[r].upload,
                              response |-> response[r]] }
  /\ pc' = [pc EXCEPT ![r] = "idle"]
  /\ file' = [file EXCEPT ![r] = NoFile]
  /\ contents' = [contents EXCEPT ![r] = Unread]
  /\ response' = [response EXCEPT ![r] = NoResponse]
  /\ UNCHANGED <<submitted, log>>

\* The service: concurrent requests over a small set of inputs.
Next ==
  \E r \in Workers :
    \/ /\ pc[r] = "idle"
       /\ \E filename \in ServiceFilenames, upload \in ServiceUploads :
            Request(r, filename, upload)
    \/ extract_metadata_begin(r)
    \/ extract_metadata_resume(r)
    \/ Deliver(r)

Spec == Init /\ [][Next]_vars

\* One request, over the requests of the input sets.
NextOne ==
  \/ /\ submitted = 0
     /\ \E req \in Requests : Request(1, req[1], req[2])
  \/ extract_metadata_begin(1)
  \/ extract_metadata_resume(1)
  \/ Deliver(1)

SpecOne == Init /\ [][NextOne]_vars

------------------------------------------------------------------------------
(* Properties.  An exchange is a request together with its response: one   *)
(* already delivered, or one a handler has just produced.                  *)

Exchanges ==
  served \cup { [filename |-> file[r].filename, upload |-> file[r].upload,
                 response |-> response[r]] : r \in { w \in Workers : pc[w] = "responded" } }

Successes == { x \in Exchanges : x.response.status_code = 200 }

EXTENSIONS ==
  { <<"p", "n", "g">>, <<"j", "p", "g">>, <<"j", "p", "e", "g">>,
    <<"g", "i", "f">>, <<"b", "m", "p">>, <<"t", "i", "f", "f">> }

\* c is the lower-case letter l or its upper-case form.
SameLetter(c, l) ==
  c = l \/ \E i \in 1..Len(LowerCase) : LowerCase[i] = l /\ UpperCase[i] = c

\* The filename is "<anything>.<ext>" for an accepted ext, in any case.
EndsInImageExtension(filename) ==
  \E e \in EXTENSIONS :
    LET k == Len(filename) - Len(e)
    IN  /\ k >= 1
        /\ filename[k] = "."
        /\ \A i \in 1..Len(e) : SameLetter(filename[k + i], e[i])

Abs(i) == IF i < 0 THEN -i ELSE i

\* h hundredths is a / b rounded to 2 decimals: no hundredth is nearer, and
\* of two equally near the even one is taken.
IsRoundedTo2(a, b, h) ==
  LET err == Abs(100 * a - h * b)
  IN  /\ 2 * err <= Abs(b)
      /\ 2 * err = Abs(b) => h % 2 = 0

\* The number a DPI component stands for, in hundredths.
Hundredths(v) == IF v.t = "float" THEN v.h ELSE 100 * v.n

\* C1: a request whose filename does not end in an accepted extension is
\* answered 400 whatever its bytes are, and its contents are never read.
C1_RejectedExtensionIs400 ==
  /\ \A x \in Exchanges :
       ~EndsInImageExtension(x.filename) => x.response.status_code = 400
  /\ \A r \in Workers :
       (pc[r] # "idle" /\ ~EndsInImageExtension(file[r].filename)) =>
         contents[r] = Unread

\* C1 witness: a rejected filename carrying a valid image has been answered 400.
C1_Witness ==
  \E r \in Workers :
    /\ pc[r] = "responded"
    /\ ~EndsInImageExtension(file[r].filename)
    /\ file[r].upload.img.valid
    /\ response[r].status_code = 400
    /\ contents[r] = Unread

\* C2: an accepted filename whose bytes the decoder cannot parse is answered
\* 500 with body {"error": "Failed to process image: <message>"}, <message>
\* being the text of the decoder's failure.
C2_DecodeFailureIs500 ==
  \A x \in Exchanges :
    (EndsInImageExtension(x.filename) /\ ~x.upload.img.valid) =>
      /\ x.response.status_code = 500
      /\ DOMAIN x.response.body = {"error"}
      /\ x.response.body["error"].t = "str"
      /\ x.response.body["error"].prefix = "Failed to process image: "
      /\ x.response.body["error"].str_e.type =
           (IF x.upload.img.why = "unidentified" THEN "UnidentifiedImageError"
            ELSE "DecompressionBombError")
      /\ x.response.body["error"].str_e.text # ""

\* C2 witness: the empty upload under an accepted name has been answered 500.
C2_Witness ==
  \E r \in Workers :
    /\ pc[r] = "responded"
    /\ EndsInImageExtension(file[r].filename)
    /\ file[r].upload.len = 0
    /\ ~file[r].upload.img.valid
    /\ response[r].status_code = 500

\* C3 as stated: every error response, 400 or 500, has a body {"error": <string>}.
C3_Original_ErrorKeyInEveryError ==
  \A x \in Exchanges :
    x.response.status_code \in {400, 500} =>
      /\ DOMAIN x.response.body = {"error"}
      /\ x.response.body["error"].t = "str"

\* C3 amended: a 500 response has a body {"error": <string>} and a 400
\* response has a body {"detail": <string>}; no error body has both keys or
\* any other.
C3_ErrorBodyShape ==
  \A x \in Exchanges :
    /\ x.response.status_code = 500 =>
         /\ DOMAIN x.response.body = {"error"}
         /\ x.response.body["error"].t = "str"
    /\ x.response.status_code = 400 =>
         /\ DOMAIN x.response.body = {"detail"}
         /\ x.response.body["detail"].t = "str"
    /\ x.response.status_code \in {200, 400, 500}

\* C3 witness: both kinds of error response have been delivered or produced.
C3_Witness ==
  \E x \in Exchanges :
    /\ x.response.status_code = 400
    /\ "detail" \in DOMAIN x.response.body
    /\ "error" \notin DOMAIN x.response.body

REQUIRED_KEYS ==
  { "filename", "format", "mode", "width_px", "height_px", "file_size_bytes",
    "file_size_mb", "dpi_x", "dpi_y" }

\* C4 as stated: an accepted filename whose bytes decode is answered 200 with
\* all required fields, whatever metadata the decoder reports.
C4_Original_DecodedIs200 ==
  \A x \in Exchanges :
    (EndsInImageExtension(x.filename) /\ x.upload.img.valid) =>
      /\ x.response.status_code = 200
      /\ REQUIRED_KEYS \subseteq DOMAIN x.response.body
      /\ x.response.body["filename"] = PyChars(x.filename)
      /\ x.response.body["width_px"] = PyInt(x.upload.img.size[1])
      /\ x.response.body["height_px"] = PyInt(x.upload.img.size[2])
      /\ x.response.body["file_size_bytes"] = PyInt(x.upload.len)

PHYSICAL_KEYS == { "width_inches", "height_inches", "width_mm", "height_mm" }

\* Both components of the decoder's DPI are numbers greater than zero.
DpiNumericPositive(info) ==
  /\ "dpi" \in DOMAIN info
  /\ \A i \in 1..2 : info["dpi"][i].t \in {"int", "float"} /\ Hundredths(info["dpi"][i]) > 0

\* C5 as stated: the four physical-size fields are all present or all
\* absent, and present exactly when both DPI components are numeric and
\* positive.
C5_Original_PhysicalIffPositiveDpi ==
  \A x \in Successes :
    /\ PHYSICAL_KEYS \cap DOMAIN x.response.body \in { {}, PHYSICAL_KEYS }
    /\ \A k \in PHYSICAL_KEYS \cap DOMAIN x.response.body : x.response.body[k].t = "float"
    /\ PHYSICAL_KEYS \subseteq DOMAIN x.response.body <=> DpiNumericPositive(x.upload.img.info)

\* C6 as stated: with a DPI pair (x, y) in the decoder metadata dpi_x is x and
\* dpi_y is y for every x and y, zero included; with none both are
\* "not specified".
C6_Original_DpiAsReported ==
  \A x \in Successes :
    LET info == x.upload.img.info
    IN  IF "dpi" \in DOMAIN info
        THEN /\ x.response.body["dpi_x"] = info["dpi"][1]
             /\ x.response.body["dpi_y"] = info["dpi"][2]
        ELSE /\ x.response.body["dpi_x"] = PyStr("not specified")
             /\ x.response.body["dpi_y"] = PyStr("not specified")

\* A zero of either number type.
IsZero(v) == v.t \in {"int", "float"} /\ Hundredths(v) = 0

\* C6 amended: with no DPI pair both dpi_x and dpi_y are "not specified";
\* with a pair (x, y), each axis on its own is the decoder's value when that
\* value is not zero and "not specified" when it is zero.
C6_DpiAsReportedUnlessZero ==
  \A x \in Successes :
    LET info == x.upload.img.info
    IN  IF "dpi" \in DOMAIN info
        THEN /\ x.response.body["dpi_x"] =
                  (IF IsZero(info["dpi"][1]) THEN PyStr("not specified") ELSE info["dpi"][1])
             /\ x.response.body["dpi_y"] =
                  (IF IsZero(info["dpi"][2]) THEN PyStr("not specified") ELSE info["dpi"][2])
        ELSE /\ x.response.body["dpi_x"] = PyStr("not specified")
             /\ x.response.body["dpi_y"] = PyStr("not specified")

\* C6 witness: a success response for a DPI pair whose x alone is zero.
C6_Witness ==
  \E x \in Successes :
    /\ "dpi" \in DOMAIN x.upload.img.info
    /\ x.upload.img.info["dpi"] = <<PyInt(0), PyInt(72)>>
    /\ x.response.body["dpi_x"] = PyStr("not specified")
    /\ x.response.body["dpi_y"] = PyInt(72)

\* The quotient pixels / dpi as <<numerator, denominator>> in whole numbers.
PixelsPerDpi(px, v) == <<100 * px, Hundredths(v)>>

\* C7 as stated: width_inches is width_px / dpi_x rounded to 2 decimals and
\* width_mm is the reported width_inches x 25.4 rounded to 2 decimals (and
\* likewise for the height).
C7_Original_MmFromReportedInches ==
  \A x \in Successes :
    PHYSICAL_KEYS \subseteq DOMAIN x.response.body =>
      LET b == x.response.body
          img == x.upload.img
          qw == PixelsPerDpi(img.size[1], img.info["dpi"][1])
          qh == PixelsPerDpi(img.size[2], img.info["dpi"][2])
      IN  /\ IsRoundedTo2(qw[1], qw[2], b["width_inches"].h)
          /\ IsRoundedTo2(qh[1], qh[2], b["height_inches"].h)
          /\ IsRoundedTo2(b["width_inches"].h * 254, 1000, b["width_mm"].h)
          /\ IsRoundedTo2(b["height_inches"].h * 254, 1000, b["height_mm"].h)

\* C7 amended: width_inches is width_px / dpi_x rounded to 2 decimals and
\* width_mm is the unrounded quotient width_px / dpi_x times 25.4, rounded to
\* 2 decimals (likewise for the height); 192 px at 96 DPI gives 2.0 inches
\* and 50.8 mm.
C7_MmFromUnroundedQuotient ==
  \A x \in Successes :
    PHYSICAL_KEYS \subseteq DOMAIN x.response.body =>
      LET b == x.response.body
          img == x.upload.img
          qw == PixelsPerDpi(img.size[1], img.info["dpi"][1])
          qh == PixelsPerDpi(img.size[2], img.info["dpi"][2])
      IN  /\ IsRoundedTo2(qw[1], qw[2], b["width_inches"].h)
          /\ IsRoundedTo2(qh[1], qh[2], b["height_inches"].h)
          /\ IsRoundedTo2(qw[1] * 254, qw[2] * 10, b["width_mm"].h)
          /\ IsRoundedTo2(qh[1] * 254, qh[2] * 10, b["height_mm"].h)
          /\ (img.size = <<192, 192>> /\ img.info["dpi"] = <<PyInt(96), PyInt(96)>>) =>
               /\ b["width_inches"] = PyFloat(200) /\ b["height_inches"] = PyFloat(200)
               /\ b["width_mm"] = PyFloat(5080) /\ b["height_mm"] = PyFloat(5080)

\* C7 witness: 1 px at 3 DPI is reported as 0.33 inches and 8.47 mm (0.33
\* inches would be 8.38 mm), beside 2 px at 72.0 DPI.
C7_Witness ==
  \E x \in Successes :
    /\ x.upload.img.size = <<1, 2>>
    /\ "dpi" \in DOMAIN x.upload.img.info
    /\ x.upload.img.info["dpi"] = <<PyInt(3), PyFloat(7200)>>
    /\ x.response.body["width_inches"] = PyFloat(33)
    /\ x.response.body["width_mm"] = PyFloat(847)
    /\ x.response.body["height_inches"] = PyFloat(3)
    /\ x.response.body["height_mm"] = PyFloat(71)

\* C8: file_size_bytes is the length of the upload and file_size_mb is that
\* length / 1,048,576 rounded to 2 decimals: 1.0 for 1,048,576 bytes and 0.0
\* below 5,243 bytes.
C8_FileSizeMb ==
  \A x \in Successes :
    LET b == x.response.body
    IN  /\ b["file_size_bytes"] = PyInt(x.upload.len)
        /\ b["file_size_mb"].t = "float"
        /\ IsRoundedTo2(x.upload.len, 1048576, b["file_size_mb"].h)
        /\ x.upload.len = 1048576 => b["file_size_mb"] = PyFloat(100)
        /\ x.upload.len < 5243 => b["file_size_mb"] = PyFloat(0)

\* C8 witness: a 393,216-byte upload (0.375 MB, a tie) is reported as 0.38.
C8_Witness ==
  \E x \in Successes :
    /\ x.upload.len = 393216
    /\ x.response.body["file_size_bytes"] = PyInt(393216)
    /\ x.response.body["file_size_mb"] = PyFloat(38)

ALLOW_LIST == {"gamma", "transparency", "icc_profile", "exif", "description", "software"}

\* C9: a success response has the key png_metadata exactly when the
\* decoder's format is "PNG", whatever the filename; its keys are then the
\* allow-listed keys the decoder metadata holds, no more and no fewer.
C9_PngMetadataKeys ==
  \A x \in Successes :
    /\ "png_metadata" \in DOMAIN x.response.body <=> x.upload.img.format = "PNG"
    /\ "png_metadata" \in DOMAIN x.response.body =>
         /\ x.response.body["png_metadata"].t = "dict"
         /\ DOMAIN x.response.body["png_metadata"].d =
              ALLOW_LIST \cap DOMAIN x.upload.img.info

\* C9 witness: a PNG uploaded under a .tiff name, whose metadata holds two
\* allow-listed keys and one that is not, is answered with those two keys.
C9_Witness ==
  \E x \in Successes :
    /\ x.filename = <<"f", ".", "T", "I", "F", "F">>
    /\ x.upload.img.format = "PNG"
    /\ DOMAIN x.upload.img.info = {"gamma", "exif", "Software"}
    /\ DOMAIN x.response.body["png_metadata"].d = {"gamma", "exif"}

\* C10 as stated: the response is a function of the request's bytes and
\* filename: two exchanges with the same filename and upload have the same
\* status and the same body, whatever was served in between.
C10_Original_ResponseIsFunctionOfRequest ==
  \A x \in Exchanges, y \in Exchanges :
    (x.filename = y.filename /\ x.upload = y.upload) => x.response = y.response

====
